---------------------------- MODULE Spec2Model ----------------------------
(***************************************************************************)
(* caption_cluster: two command line programs.                             *)
(*                                                                         *)
(*   captions (src/captions/src/main.rs)  loads (file, caption words)      *)
(*       items and bisects them with a worklist until every group is       *)
(*       small enough.                          specification SpecCaptions *)
(*   tags (src/tags/src/main.rs)  loads (file, weighted tags) items, cuts  *)
(*       them into k groups with k-medoids and copies/moves the member     *)
(*       files into one directory per group.       specification SpecTags  *)
(*       The per-line parser of the tags program is also exercised alone   *)
(*       on a wider set of tag fields.             specification SpecLoad  *)
(*       SpecArgs reads the files of the command line one by one, with     *)
(*       files that cannot be opened and lines that cannot be read;        *)
(*       SpecTwice runs the file loop a second time over the same groups.  *)
(*                                                                         *)
(* The clustering libraries (smartcore KMeans, kmedoids fasterpam) are not *)
(* part of the repository.  Their results are modelled by what the calling *)
(* code can rely on: one label per row, each label below the number of     *)
(* clusters asked for; which rows get which label is left open.            *)
(*                                                                         *)
(* The two size literals of the programs (100 items per caption group,     *)
(* 50 files per tag cluster) are scaled down to MaxGroupSize and           *)
(* FilesPerCluster so that the oversized / multi-cluster cases occur with  *)
(* a handful of items; the code around them is otherwise unchanged.        *)
(***************************************************************************)
EXTENDS Integers, Sequences, FiniteSets, TLC

\* ------------------------------------------------------------------ bounds
\* Stand-in for the literal 100 of `if bag.len() <= 100` (captions main.rs:98).
MaxGroupSize == 2
\* Longest loaded caption list.
MaxItems == 4
\* Cap on the number of kmeans calls of one run (the loop need not terminate).
MaxSplits == 2

\* ----------------------------------------------------------------- helpers
Range(s) == {s[i] : i \in DOMAIN s}

Front(s) == SubSeq(s, 1, Len(s) - 1)

Last(s) == s[Len(s)]

SeqsUpTo(S, n) == UNION {[1..m -> S] : m \in 0..n}

RECURSIVE SumSeq(_)
SumSeq(s) == IF s = <<>> THEN 0 ELSE s[1] + SumSeq(Tail(s))

\* Number of positions of s that hold e.
Count(s, e) == Cardinality({i \in DOMAIN s : s[i] = e})

Max(a, b) == IF a >= b THEN a ELSE b

VARIABLES
    \* ---- captions program
    file_word_bag,  \* the loaded list of (nom, caption_words)
    pending,        \* the worklist: a stack of bags
    emitted,        \* the bags logged as "resolved group", in order
    idx,            \* the group counter
    nsplit,         \* number of kmeans calls so far (history)
    cpc,            \* "idle" | "loop" | "done"
    \* ---- tags program
    args,           \* the command line's files not opened yet
    lines,          \* the lines of the files opened so far, in order; a line
                    \* is its sequence of tab-separated fields
    lpos,           \* number of lines load_tags has consumed
    tagged_files,   \* the TaggedFile list collected so far
    io_failed,      \* an open or a read of an input file has failed (history)
    k,              \* the cluster count cut asks for (-1 before cut)
    partition,      \* cut's result: group -> [files, tags]
    todo_groups,    \* groups the outer materialization loop has not reached
    cur,            \* the group of the outer loop (-1 outside it)
    todo_files,     \* files of cur the inner loop has not reached
    src_files,      \* images present at their source path
    dst_files,      \* the files under tag_partitioned/: <<group, file name>> ->
                    \* [from: the image copied, full: the copy completed,
                    \*  run: the run that wrote it]
    run,            \* 1, or 2 in a second pass over the same partition
    src_at_start,   \* src_files when the second pass started (history)
    dst_at_start,   \* dst_files when the second pass started (history)
    tpc,            \* "idle" | "load" | "cut" | "materialize" | "done" |
                    \* "panicked" | "failed" (main returned Err)
    panic_at        \* the unwrap / assertion that panicked, or "none"

cvars == <<file_word_bag, pending, emitted, idx, nsplit, cpc>>

\* What load_tags and main's collect read and write.
lvars == <<args, lines, lpos, tagged_files, io_failed>>

\* What cut writes.
kvars == <<k, partition>>

\* The position of the two materialization loops.
mvars == <<todo_groups, cur, todo_files>>

\* The file system.
fvars == <<src_files, dst_files>>

\* The bookkeeping of a second pass.
rvars == <<run, src_at_start, dst_at_start>>

tvars == <<lvars, kvars, mvars, fvars, rvars, tpc, panic_at>>

vars == <<cvars, tvars>>

\* A directory tree with no file.
NoFiles == [p \in {} |-> <<>>]

\* The tags program is not running.
TagsIdle ==
    /\ args = <<>>
    /\ lines = <<>>
    /\ lpos = 0
    /\ tagged_files = <<>>
    /\ io_failed = FALSE
    /\ k = -1
    /\ partition = <<>>
    /\ todo_groups = {}
    /\ cur = -1
    /\ todo_files = {}
    /\ src_files = {}
    /\ dst_files = NoFiles
    /\ run = 1
    /\ src_at_start = {}
    /\ dst_at_start = NoFiles
    /\ tpc = "idle"
    /\ panic_at = "none"

\* The captions program is not running.
CaptionsIdle ==
    /\ file_word_bag = <<>>
    /\ pending = <<>>
    /\ emitted = <<>>
    /\ idx = 0
    /\ nsplit = 0
    /\ cpc = "idle"

(***************************************************************************)
(*                         captions: the bisection                         *)
(***************************************************************************)
Noms == {"a", "b"}

WordSets == {{"red"}, {"blue"}}

\* One element of file_word_bag: (nom.to_string(), caption_words).
Items == [nom : Noms, words : WordSets]

\* known_words after the loading loop: word -> number of items containing it,
\* then mapped to the rarity 1 - v/n, kept as the fraction (n - v) / n.
known_words(bag) ==
    LET keys == UNION {bag[i].words : i \in DOMAIN bag}
        df(w) == Cardinality({i \in DOMAIN bag : w \in bag[i].words})
    IN  [w \in keys |-> [num |-> Len(bag) - df(w), den |-> Len(bag)]]

\* The N x M presence matrix kmeans builds: one row per item, one column per
\* key of known_words.
Values(bag, kw) ==
    [i \in DOMAIN bag |-> [w \in DOMAIN kw |-> IF w \in bag[i].words THEN 1 ELSE 0]]

\* KMeans::fit(..with_k(num_clusters)).and_then(predict).unwrap(): one label
\* per row of x, each a cluster number below num_clusters.
KMeansLabels(x, num_clusters) == [DOMAIN x -> 0..(num_clusters - 1)]

\* Mutant of BuildClusters: cluster numbers taken one too high, so the items
\* labelled 0 are pushed nowhere.
BuildClustersShifted(labels, bag, num_clusters) ==
    [c \in 1..num_clusters |->
        SelectSeq([i \in DOMAIN bag |-> [lab |-> labels[i], item |-> bag[i]]],
                  LAMBDA e : e.lab = c)]

\* The cluster building loop: item i goes to clusters[labels[i]], in order.
BuildClusters(labels, bag, num_clusters) ==
    [c \in 1..num_clusters |->
        SelectSeq([i \in DOMAIN bag |-> [lab |-> labels[i], item |-> bag[i]]],
                  LAMBDA e : e.lab = c - 1)]

ItemsOf(tagged) == [i \in DOMAIN tagged |-> tagged[i].item]

\* The set of results kmeans(bag, known_words, num_clusters) can return.
kmeans(bag, kw, num_clusters) ==
    { LET cl == BuildClusters(labels, bag, num_clusters)
      IN  [c \in 1..num_clusters |-> ItemsOf(cl[c])]
      : labels \in KMeansLabels(Values(bag, kw), num_clusters) }

\* Mutant of IsResolved: `<` for `<=`.
IsResolvedStrict(bag) == Len(bag) < MaxGroupSize

\* `if bag.len() <= 100`
IsResolved(bag) == Len(bag) <= MaxGroupSize

InitCaptions ==
    /\ file_word_bag \in SeqsUpTo(Items, MaxItems)
    /\ pending = <<file_word_bag>>
    /\ emitted = <<>>
    /\ idx = 0
    /\ nsplit = 0
    /\ cpc = "loop"
    /\ TagsIdle

\* One pass of `while let Some(bag) = pending.pop()` through the small branch.
Resolve ==
    /\ cpc = "loop"
    /\ pending # <<>>
    /\ LET bag == Last(pending) IN
        /\ IsResolved(bag)
        /\ idx' = idx + 1
        /\ emitted' = Append(emitted, bag)
        /\ pending' = Front(pending)
    /\ UNCHANGED <<file_word_bag, nsplit, cpc, tvars>>

\* One pass through the split branch.
Split ==
    /\ cpc = "loop"
    /\ pending # <<>>
    /\ nsplit < MaxSplits
    /\ LET bag == Last(pending) IN
        /\ ~IsResolved(bag)
        /\ \E clusters \in kmeans(bag, known_words(file_word_bag), 2) :
              pending' = Front(pending) \o clusters
    /\ nsplit' = nsplit + 1
    /\ UNCHANGED <<file_word_bag, emitted, idx, cpc, tvars>>

\* pending.pop() returns None: the loop ends and main returns Ok(()).
Finish ==
    /\ cpc = "loop"
    /\ pending = <<>>
    /\ cpc' = "done"
    /\ UNCHANGED <<file_word_bag, pending, emitted, idx, nsplit, tvars>>

NextCaptions == Resolve \/ Split \/ Finish

SpecCaptions == InitCaptions /\ [][NextCaptions]_vars

\* ------------------------------------------------------- captions: claims
\* pending followed by emitted: every bag the run still holds or has logged.
Held == pending \o emitted

\* How many times item e occurs in the bags of Held.
HeldCount(e) == SumSeq([j \in DOMAIN Held |-> Count(Held[j], e)])

\* C1: at every loop head the worklist and the emitted groups together hold
\* each loaded item exactly as often as the loaded list does (nothing dropped,
\* nothing duplicated, nothing foreign), whatever labels the k=2 step gave;
\* so when the loop has ended the emitted groups alone do.
C1_WorklistPartitionsInput ==
    /\ \A j \in DOMAIN Held : Range(Held[j]) \subseteq Range(file_word_bag)
    /\ \A e \in Items : HeldCount(e) = Count(file_word_bag, e)
    /\ cpc = "done" =>
          \A e \in Items :
              SumSeq([j \in DOMAIN emitted |-> Count(emitted[j], e)])
                  = Count(file_word_bag, e)

\* A finished run that split at least once and emitted two non-empty groups
\* out of a list that holds some item twice.
C1_Witness ==
    /\ cpc = "done"
    /\ nsplit >= 1
    /\ Cardinality({j \in DOMAIN emitted : emitted[j] # <<>>}) >= 2
    /\ \E e \in Items : Count(file_word_bag, e) >= 2

\* C2: every emitted group has at most MaxGroupSize members, and a loaded
\* list of at most MaxGroupSize items is emitted as one group, unchanged,
\* without any call of kmeans.
C2_GroupsBoundedSmallInputWhole ==
    /\ \A j \in DOMAIN emitted : Len(emitted[j]) <= MaxGroupSize
    /\ Len(file_word_bag) <= MaxGroupSize =>
          /\ nsplit = 0
          /\ emitted \in {<<>>, <<file_word_bag>>}
          /\ cpc = "done" => emitted = <<file_word_bag>> /\ idx = 1

\* A finished run on a list of exactly MaxGroupSize items.
C2_Witness ==
    /\ cpc = "done"
    /\ Len(file_word_bag) = MaxGroupSize
    /\ emitted = <<file_word_bag>>


(***************************************************************************)
(*                      tags: parsing one input line                       *)
(*                                                                         *)
(* A string is a sequence of one-character strings, so that split, trim    *)
(* and the regular expression act on characters as the code's do.          *)
(***************************************************************************)
Digits == {"0", "1", "2", "8"}

DigitVal(c) == CASE c = "0" -> 0 [] c = "1" -> 1 [] c = "2" -> 2 [] c = "8" -> 8

RECURSIVE Pow10(_)
Pow10(n) == IF n = 0 THEN 1 ELSE 10 * Pow10(n - 1)

\* str::split(sep): the pieces between separators, empty pieces included.
RECURSIVE SplitOn(_, _)
SplitOn(s, sep) ==
    IF \A i \in DOMAIN s : s[i] # sep
    THEN <<s>>
    ELSE LET p == CHOOSE i \in DOMAIN s : s[i] = sep /\ \A j \in 1..(i - 1) : s[j] # sep
         IN  <<SubSeq(s, 1, p - 1)>> \o SplitOn(SubSeq(s, p + 1, Len(s)), sep)

\* str::trim.
RECURSIVE TrimStart(_)
TrimStart(s) == IF s # <<>> /\ s[1] = " " THEN TrimStart(Tail(s)) ELSE s

RECURSIVE TrimEnd(_)
TrimEnd(s) == IF s # <<>> /\ s[Len(s)] = " " THEN TrimEnd(Front(s)) ELSE s

Trim(s) == TrimEnd(TrimStart(s))

\* The group `-?[0-9\.]+`.
MatchesScore(s) ==
    LET body == IF s # <<>> /\ s[1] = "-" THEN Tail(s) ELSE s
    IN  /\ body # <<>>
        /\ \A i \in DOMAIN body : body[i] \in Digits \cup {"."}

\* The colon at which `^\((?P<name>.+):(?P<score>-?[0-9\.]+)\)$` splits t, or 0
\* when t does not match.  The score group holds no colon, so the colon is
\* the last one of t.
RegexColon(t) ==
    LET ps == {p \in DOMAIN t :
                  /\ t[1] = "("
                  /\ t[Len(t)] = ")"
                  /\ p >= 3
                  /\ t[p] = ":"
                  /\ MatchesScore(SubSeq(t, p + 1, Len(t) - 1))}
    IN  IF ps = {} THEN 0 ELSE CHOOSE p \in ps : \A q \in ps : q <= p

\* Largest number of fractional digits of a score in the model's inputs; scores
\* are kept as integers in units of 10^-FracDigits.
FracDigits == 1

\* str::parse::<f64> on a string of the score group: Ok(v), v in units of
\* 10^-FracDigits, or Err for a string with no digit or with two dots.
ParseF64(s) ==
    LET neg  == s[1] = "-"
        body == IF neg THEN Tail(s) ELSE s
        dots == {i \in DOMAIN body : body[i] = "."}
        digs == SelectSeq(body, LAMBDA c : c \in Digits)
        frac == IF dots = {} THEN 0 ELSE Len(body) - (CHOOSE i \in dots : TRUE)
        mant == SumSeq([i \in DOMAIN digs |-> DigitVal(digs[i]) * Pow10(Len(digs) - i)])
    IN  IF Cardinality(dots) > 1 \/ digs = <<>> THEN [ok |-> FALSE, v |-> 0]
        ELSE [ok |-> TRUE, v |-> (IF neg THEN -1 ELSE 1) * mant * Pow10(FracDigits - frac)]

\* Tag::from_str: Ok(Tag) or a panic; `at` names the unwrap that panics
\* (line 80: captures, line 82: parse).  No path returns Err, so the caller's
\* flat_map never has a tag to drop.
from_str(t) ==
    LET tt == Trim(t)
        p  == RegexColon(tt)
    IN  IF p = 0 THEN [ok |-> FALSE, at |-> "captures"]
        ELSE LET v == ParseF64(SubSeq(tt, p + 1, Len(tt) - 1))
             IN  IF ~v.ok THEN [ok |-> FALSE, at |-> "parse"]
                 ELSE [ok |-> TRUE, name |-> SubSeq(tt, 2, p - 1), score |-> v.v]

\* fold(HashMap::new(), insert): the map name -> score, a later tag of the
\* same name replacing an earlier one.
RECURSIVE FoldTags(_)
FoldTags(ts) ==
    IF ts = <<>> THEN <<>>
    ELSE LET acc == FoldTags(Front(ts))
             t   == ts[Len(ts)]
         IN  [n \in DOMAIN acc \cup {t.name} |-> IF n = t.name THEN t.score ELSE acc[n]]

\* The "Normalize" block: every score divided by len = sqrt(sum of squares).
\* The quotient v / sqrt(q) is kept as the pair (v, q); q = 0 is the NaN 0/0.
Normalize(tags) ==
    LET names == DOMAIN tags
        RECURSIVE SumSq(_)
        SumSq(S) == IF S = {} THEN 0
                    ELSE LET n == CHOOSE n \in S : TRUE
                         IN  tags[n] * tags[n] + SumSq(S \ {n})
    IN  [n \in names |-> [num |-> tags[n], sumsq |-> SumSq(names)]]

\* The closure load_tags maps over the lines.  A line is its tab-separated
\* fields; field 2 is the image, field 3 the comma-separated tag list.
\* Result: the TaggedFile, or the place of the panic.
ParseLine(line) ==
    IF Len(line) # 4 THEN [panic |-> "collect_tuple"]
    ELSE LET pieces == SelectSeq(SplitOn(line[3], ","), LAMBDA t : t # <<>>)
             parsed == [i \in DOMAIN pieces |-> from_str(pieces[i])]
             bad    == {i \in DOMAIN parsed : ~parsed[i].ok}
             kept   == SelectSeq(parsed, LAMBDA r : r.ok)
         IN  IF bad # {}
             THEN [panic |-> parsed[CHOOSE i \in bad : \A j \in bad : i <= j].at]
             ELSE [panic |-> "none",
                   file  |-> [filename |-> line[2], tags |-> Normalize(FoldTags(kept))]]


(***************************************************************************)
(*                 tags: load_tags, cut and the file loop                  *)
(***************************************************************************)
\* Stand-in for the literal 50 of `tagged_files.len() / 50` (tags main.rs:140).
FilesPerCluster == 2
\* Longest input of the tags program, in lines.
MaxLines == 4

\* An image is its path: <<directory, file name>>.
Images == {<<"x", "a">>, <<"y", "a">>, <<"x", "b">>, <<"y", "b">>}

\* PathBuf::from(file).file_name().
file_name(image) == image[2]

F_good == <<"(", "c", ":", "1", ")">>

F_none == <<>>

F_bare == <<"c", ":", "1">>

\* Well-formed lines with one good tag, a line with no tag, a line with a tag
\* that lacks its parentheses, and a line with a field missing.
LineSet == {<<"0", img, F_good, "g">> : img \in Images}
               \cup {<<"0", <<"x", "a">>, F_none, "g">>,
                     <<"0", <<"x", "a">>, F_bare, "g">>,
                     <<"0", <<"x", "a">>, F_good>>}

\* What BufReader::lines yields for a line that cannot be read (Err).
ReadError == <<"Err">>

\* The image a line names, if it has that field.
ImagesOf(ls) == {ls[i][2] : i \in {j \in DOMAIN ls : Len(ls[j]) >= 2}}

\* The state at the start of load_tags' line loop once every file of the
\* command line has been opened: `ls` is the lines of the files, in order.
TagsStart(as, ls, present) ==
    /\ args = as
    /\ lines = ls
    /\ lpos = 0
    /\ tagged_files = <<>>
    /\ io_failed = FALSE
    /\ k = -1
    /\ partition = <<>>
    /\ todo_groups = {}
    /\ cur = -1
    /\ todo_files = {}
    /\ src_files = present
    /\ dst_files = NoFiles
    /\ run = 1
    /\ src_at_start = {}
    /\ dst_at_start = NoFiles
    /\ tpc = "load"
    /\ panic_at = "none"
    /\ CaptionsIdle

InitTags == \E ls \in SeqsUpTo(LineSet, MaxLines) : TagsStart(<<>>, ls, ImagesOf(ls))

\* main's flat_map(|f| load_tags(&f)) takes the next file of the command
\* line.  File::open(filename)? makes load_tags return Err, and flat_map
\* drops an Err: the file is passed over and the run goes on.
OpenNext ==
    /\ tpc = "load"
    /\ lpos = Len(lines)
    /\ args # <<>>
    /\ args' = Tail(args)
    /\ IF args[1].opens
       THEN lines' = lines \o args[1].lines /\ UNCHANGED io_failed
       ELSE io_failed' = TRUE /\ UNCHANGED lines
    /\ UNCHANGED <<lpos, tagged_files, kvars, mvars, fvars, rvars, tpc, panic_at, cvars>>

\* load_tags consumes one line: lines().flatten() passes over a line that
\* could not be read; then the map closure, then the filter that drops a
\* TaggedFile with no tags.
LoadLine ==
    /\ tpc = "load"
    /\ lpos < Len(lines)
    /\ IF lines[lpos + 1] = ReadError
       THEN /\ lpos' = lpos + 1
            /\ io_failed' = TRUE
            /\ UNCHANGED <<tagged_files, tpc, panic_at>>
       ELSE LET r == ParseLine(lines[lpos + 1]) IN
            IF r.panic # "none"
            THEN /\ tpc' = "panicked"
                 /\ panic_at' = r.panic
                 /\ UNCHANGED <<lpos, tagged_files, io_failed>>
            ELSE /\ lpos' = lpos + 1
                 /\ tagged_files' = IF DOMAIN r.file.tags = {} THEN tagged_files
                                    ELSE Append(tagged_files, r.file)
                 /\ UNCHANGED <<tpc, panic_at, io_failed>>
    /\ UNCHANGED <<args, lines, kvars, mvars, fvars, rvars, cvars>>

\* The files and their lines are exhausted: collect_vec returns and main goes
\* on to cut.
LoadDone ==
    /\ tpc = "load"
    /\ lpos = Len(lines)
    /\ args = <<>>
    /\ tpc' = "cut"
    /\ UNCHANGED <<lvars, kvars, mvars, fvars, rvars, panic_at, cvars>>

\* `let k = tagged_files.len() / 50;`
ClusterCount(n) == n \div FilesPerCluster

\* kmedoids::random_initialization(n, k, rng): k distinct indices.
random_initialization(n, kk) == {m \in SUBSET (1..n) : Cardinality(m) = kk}

\* kmedoids::fasterpam(&mat, &mut meds, _).1: for each item the number of the
\* medoid it is assigned to.  With no medoid there is nothing to assign to:
\* the library stops the run (an assertion on the number of medoids).
fasterpam(n, meds) ==
    IF meds = {} THEN {} ELSE [1..n -> 0..(Cardinality(meds) - 1)]

\* The fold over r.1: group v collects the file names and the tag names of
\* the items assigned to v.
FoldGroups(assi, files) ==
    LET used == {assi[i] : i \in DOMAIN assi}
    IN  [v \in used |->
            [files |-> {files[i].filename : i \in {j \in DOMAIN assi : assi[j] = v}},
             tags  |-> UNION {DOMAIN files[i].tags : i \in {j \in DOMAIN assi : assi[j] = v}}]]

\* cut(&tagged_files), then main enters the loop over the partition.
Cut ==
    /\ tpc = "cut"
    /\ LET n == Len(tagged_files) IN
        /\ k' = ClusterCount(n)
        /\ \E meds \in random_initialization(n, k') :
              IF fasterpam(n, meds) = {}
              THEN /\ tpc' = "panicked"
                   /\ panic_at' = "fasterpam"
                   /\ UNCHANGED <<partition, todo_groups>>
              ELSE \E assi \in fasterpam(n, meds) :
                   /\ partition' = FoldGroups(assi, tagged_files)
                   /\ todo_groups' = DOMAIN partition'
                   /\ tpc' = "materialize"
                   /\ UNCHANGED panic_at
    /\ UNCHANGED <<lvars, cur, todo_files, fvars, rvars, cvars>>

\* `let write_files = true; let move_files = true;`
write_files == TRUE

move_files == TRUE

\* The outer loop takes the next (k, (files, v)) of the partition; a HashMap
\* yields its entries in no particular order.
NextGroup ==
    /\ tpc = "materialize"
    /\ todo_files = {}
    /\ todo_groups # {}
    /\ \E g \in todo_groups :
        /\ cur' = g
        /\ todo_files' = partition[g].files
        /\ todo_groups' = todo_groups \ {g}
    /\ UNCHANGED <<lvars, kvars, fvars, rvars, tpc, panic_at, cvars>>

\* Mutant of DestMissing: the destination is never looked at.
DestMissingAlways(to) == TRUE

\* `if std::fs::metadata(&to).is_err()`: no file at the destination.
DestMissing(to) == to \notin DOMAIN dst_files

\* Mutant of RemoveAfterCopy: the source is removed whatever the copy returned.
RemoveAlways(copy_ok) == move_files

\* `if std::fs::copy(file, to).is_ok() { if move_files { remove_file } }`
RemoveAfterCopy(copy_ok) == copy_ok /\ move_files

\* The destination tree after fs::copy(file, to) has written `to`.
Written(to, file, complete) ==
    [p \in DOMAIN dst_files \cup {to} |->
        IF p = to THEN [from |-> file, full |-> complete, run |-> run]
        ELSE dst_files[p]]

\* One pass of the inner loop for `file` of group cur.  The file system calls
\* may fail; a failed copy of an existing source may leave a partial file.
FileStep ==
    /\ tpc = "materialize"
    /\ todo_files # {}
    /\ write_files
    /\ \E file \in todo_files :
        LET to == <<cur, file_name(file)>> IN
        /\ todo_files' = todo_files \ {file}
        /\ \/ \* create_dir_all(&outdir)? returns the error
              /\ tpc' = "failed"
              /\ UNCHANGED fvars
           \/ \* metadata(&to) is Ok: the destination exists, nothing is done
              /\ ~DestMissing(to)
              /\ UNCHANGED <<fvars, tpc>>
           \/ \* copy fails
              /\ DestMissing(to)
              /\ \E partial \in (IF file \in src_files THEN {TRUE, FALSE} ELSE {FALSE}) :
                  dst_files' = IF partial THEN Written(to, file, FALSE) ELSE dst_files
              /\ src_files' = IF RemoveAfterCopy(FALSE) THEN src_files \ {file} ELSE src_files
              /\ UNCHANGED tpc
           \/ \* copy succeeds, remove_file succeeds
              /\ DestMissing(to)
              /\ file \in src_files
              /\ dst_files' = Written(to, file, TRUE)
              /\ src_files' = IF RemoveAfterCopy(TRUE) THEN src_files \ {file} ELSE src_files
              /\ UNCHANGED tpc
           \/ \* copy succeeds, remove_file(file)? returns the error
              /\ DestMissing(to)
              /\ file \in src_files
              /\ RemoveAfterCopy(TRUE)
              /\ dst_files' = Written(to, file, TRUE)
              /\ tpc' = "failed"
              /\ UNCHANGED src_files
    /\ UNCHANGED <<lvars, kvars, todo_groups, cur, rvars, panic_at, cvars>>

\* Both loops are exhausted: main returns Ok(()).
MaterializeDone ==
    /\ tpc = "materialize"
    /\ todo_files = {}
    /\ todo_groups = {}
    /\ tpc' = "done"
    /\ UNCHANGED <<lvars, kvars, mvars, fvars, rvars, panic_at, cvars>>

NextTags == LoadLine \/ LoadDone \/ Cut \/ NextGroup \/ FileStep \/ MaterializeDone

SpecTags == InitTags /\ [][NextTags]_vars

\* ----------------------------------------------------------- tags: claims
\* cut has computed its cluster count.
CutRan == k # -1

\* cut has returned a partition to main.
CutReturned == tpc \in {"materialize", "done", "failed"}

\* C4: for n >= 1 surviving items cut asks for max(1, n / FilesPerCluster)
\* clusters; with fewer than FilesPerCluster items it asks for one and
\* returns one group.
C4_ClusterCountAtLeastOne ==
    LET n == Len(tagged_files) IN
    (CutRan /\ n >= 1) =>
        /\ k = Max(1, n \div FilesPerCluster)
        /\ n < FilesPerCluster =>
              /\ tpc # "panicked"
              /\ Cardinality(DOMAIN partition) = 1

\* The images of the input lines whose tag map is not empty after parsing.
Survivors ==
    {lines[i][2] : i \in {j \in DOMAIN lines : DOMAIN ParseLine(lines[j]).file.tags # {}}}

\* C5: the member sets of the groups cut returns cover exactly the images of
\* the lines with a non-empty tag map, and no image is a member of two groups.
C5_GroupsPartitionSurvivors ==
    CutReturned =>
        /\ UNION {partition[g].files : g \in DOMAIN partition} = Survivors
        /\ \A g, h \in DOMAIN partition :
              g # h => partition[g].files \cap partition[h].files = {}

\* The complete copy of image f written by pass r is in place in group g.
CopiedTo(f, g, r) ==
    LET to == <<g, file_name(f)>> IN
    /\ to \in DOMAIN dst_files
    /\ dst_files[to] = [from |-> f, full |-> TRUE, run |-> r]

\* C7: an image that is gone from its source path is a member of a group to
\* which its copy succeeded in this run, and that copy is in place: the loop
\* removes a source only after copying that file, so at every point of the
\* loop each member file is at its source or at a destination.
C7_RemovedOnlyAfterCopy ==
    \A f \in ImagesOf(lines) :
        f \notin src_files =>
            \E g \in DOMAIN partition : f \in partition[g].files /\ CopiedTo(f, g, run)

\* A finished loop that moved one member and left another, which the existing
\* destination guard skipped or whose copy failed, at its source.
C7_Witness ==
    /\ tpc = "done"
    /\ \E g \in DOMAIN partition : \E f \in partition[g].files :
          f \notin src_files /\ CopiedTo(f, g, run)
    /\ \E g \in DOMAIN partition : \E f \in partition[g].files :
          /\ f \in src_files
          /\ \A h \in DOMAIN partition : ~CopiedTo(f, h, run)

\* C8: a failure while materializing one file does not stop the loop: the
\* run is never over with an error while a member of the current group or a
\* whole group is still waiting to be processed.
C8_FailureDoesNotStopLoop ==
    tpc = "failed" => (todo_files = {} /\ todo_groups = {})

(***************************************************************************)
(*          tags: the line parser alone, on a wider set of fields          *)
(***************************************************************************)
\* Most tags in one field.
MaxTags == 3

\* "(c:1)", "c:1", "(d:-2)", "(c:.)", " (c:0.8) ", "", "(c:d:1)", "(c:0)"
TagStrings ==
    { <<"(", "c", ":", "1", ")">>,
      <<"c", ":", "1">>,
      <<"(", "d", ":", "-", "2", ")">>,
      <<"(", "c", ":", ".", ")">>,
      <<" ", "(", "c", ":", "0", ".", "8", ")", " ">>,
      <<>>,
      <<"(", "c", ":", "d", ":", "1", ")">>,
      <<"(", "c", ":", "0", ")">> }

\* The tags of ts joined with commas, as the field of an input line has them.
RECURSIVE JoinTags(_)
JoinTags(ts) ==
    IF ts = <<>> THEN <<>>
    ELSE IF Len(ts) = 1 THEN ts[1]
    ELSE ts[1] \o <<",">> \o JoinTags(Tail(ts))

LoadFields == {JoinTags(ts) : ts \in SeqsUpTo(TagStrings, MaxTags)}

InitLoad ==
    \E f \in LoadFields : TagsStart(<<>>, << <<"0", <<"x", "a">>, f, "g">> >>, {})

NextLoad == LoadLine \/ LoadDone

SpecLoad == InitLoad /\ [][NextLoad]_vars

\* What the claim says a line yields: the tags of the expected form, folded
\* and normalized; the others skipped.
SkippingFile(line) ==
    LET pieces == SelectSeq(SplitOn(line[3], ","), LAMBDA t : t # <<>>)
        parsed == [i \in DOMAIN pieces |-> from_str(pieces[i])]
    IN  [filename |-> line[2],
         tags |-> Normalize(FoldTags(SelectSeq(parsed, LAMBDA r : r.ok)))]

SkippingLoad(ls) ==
    SelectSeq([i \in DOMAIN ls |-> SkippingFile(ls[i])], LAMBDA f : DOMAIN f.tags # {})

\* C6: a tag that is not of the form (name:score) does not end the run; the
\* files loaded so far carry exactly their well-formed tags, and a file left
\* with no tag is not loaded.
C6_MalformedTagSkipped ==
    /\ panic_at # "captures"
    /\ (tpc = "cut" \/ (tpc = "load" /\ panic_at = "none")) =>
          tagged_files = SkippingLoad(SubSeq(lines, 1, lpos))

(***************************************************************************)
(*         tags: the files of the command line, opened one by one          *)
(***************************************************************************)
\* Most files on the command line, and most lines in one of them.
MaxFiles == 2

MaxFileLines == 2

\* The lines a file may hold: a good line for one of two images, or a line
\* the reader fails on.
FileLineSet == {<<"0", <<"x", "a">>, F_good, "g">>,
                <<"0", <<"y", "b">>, F_good, "g">>,
                ReadError}

\* A file of the command line: one that cannot be opened, or its lines.
InputFiles ==
    {[opens |-> FALSE, lines |-> <<>>]}
        \cup {[opens |-> TRUE, lines |-> ls] : ls \in SeqsUpTo(FileLineSet, MaxFileLines)}

\* main starts with the command line; no file has been opened.
InitArgs ==
    \E as \in SeqsUpTo(InputFiles, MaxFiles) :
        TagsStart(as, <<>>,
                  UNION {ImagesOf(as[i].lines) : i \in DOMAIN as})

NextArgs == OpenNext \/ NextTags

SpecArgs == InitArgs /\ [][NextArgs]_vars

\* C9: a failure to open or to read an input file aborts the run: after it
\* no clustering is performed and nothing is materialized.
C9_InputFailureAbortsRun ==
    io_failed =>
        /\ tpc \notin {"cut", "materialize", "done"}
        /\ ~CutRan
        /\ dst_files = NoFiles

(***************************************************************************)
(*       tags: the file loop run a second time over the same groups        *)
(***************************************************************************)
\* The loop over the partition is entered again with the file system as the
\* first pass left it, whether that pass finished or returned an error.
Rerun ==
    /\ tpc \in {"done", "failed"}
    /\ run = 1
    /\ run' = 2
    /\ src_at_start' = src_files
    /\ dst_at_start' = dst_files
    /\ todo_groups' = DOMAIN partition
    /\ cur' = -1
    /\ todo_files' = {}
    /\ tpc' = "materialize"
    /\ UNCHANGED <<lvars, kvars, fvars, panic_at, cvars>>

\* Longest input of the two-pass runs, in lines, each line well formed.
MaxTwiceLines == 4

\* Two images of one name in two directories, and a third.
TwiceImages == {<<"x", "a">>, <<"y", "a">>, <<"x", "b">>}

InitTwice ==
    \E ls \in SeqsUpTo({<<"0", img, F_good, "g">> : img \in TwiceImages}, MaxTwiceLines) :
        TagsStart(<<>>, ls, ImagesOf(ls))

NextTwice == NextTags \/ Rerun

SpecTwice == InitTwice /\ [][NextTwice]_vars

\* The destinations of every member existed when the second pass started.
AllPresentAtStart ==
    \A g \in DOMAIN partition : \A f \in partition[g].files :
        <<g, file_name(f)>> \in DOMAIN dst_at_start

=============================================================================
